---- MODULE Spec2Model ----
(***************************************************************************)
(* Selfie verification system: the HTTP surface of server/routes.ts (the   *)
(* verification submission flow, the administrator review routes), the    *)
(* capture session of client/src/components/webcam-capture.tsx and the     *)
(* form of client/src/components/verification-form.tsx on its page.        *)
(*                                                                         *)
(* JavaScript strings are modelled as sequences of tokens, each token      *)
(* standing for a run of characters of known length, so that length        *)
(* checks, trim(), includes() and split() are computed as the code         *)
(* computes them.                                                          *)
(***************************************************************************)
EXTENDS Integers, Sequences, FiniteSets, TLC

VARIABLES
    users,           \* accounts table: id -> [role, status]
    sessions,        \* ids of the accounts that hold a logged-in session
    verifications,   \* verifications table, in insertion order (id = index)
    vreq,            \* the POST /api/verify request being handled
    res,             \* the last response sent by one of the other routes
    faceDetector,    \* capture session: detector model loaded
    faceDetected,
    facePositions,
    glassesDetected,
    imageQuality,
    isLive,
    movementHistory,
    capturedImage,
    lightingStatus,
    error,
    multipleFaces,
    pageImage,       \* verification page: the image handed over by onCapture
    detecting,       \* estimateFaces() calls awaiting their result
    samples,         \* number of primary-face samples appended so far
    glassesLog,      \* console: the 'Final glasses score' lines of the last cycle
    form,            \* verification form: the field, its message, submitted once
    boot             \* the server process from its start to listening or exit

serverVars == <<users, sessions, verifications, vreq, res>>
clientVars == <<faceDetector, faceDetected, facePositions, glassesDetected,
                imageQuality, isLive, movementHistory, capturedImage,
                lightingStatus, error, multipleFaces, pageImage,
                detecting, samples, glassesLog, form>>
vars == <<serverVars, clientVars, boot>>

----------------------------------------------------------------------------
(* Bounds *)

MaxRows == 2         \* verification rows the table may hold under review
MaxSubmitRows == 1   \* rows the table may hold in the submission specifications
MaxSamples == 3      \* primary-face samples fed to one capture session
MaxDetecting == 1    \* detection cycles in flight at once
MaxHistorySamples == 11   \* samples fed to a session that fills its history
MaxPageSamples == 2  \* samples fed to a session with one moving face
MaxAccounts == 1     \* accounts that may be registered

----------------------------------------------------------------------------
(* JavaScript values *)

Undefined == [t |-> "undefined", s |-> <<>>]
Num(n) == [t |-> "number", s |-> <<n>>]   \* n is the numeral, as a token
Str(s) == [t |-> "string", s |-> s]

\* Characters each token stands for.
TokLen(tok) ==
    CASE tok = " " -> 1
      [] tok = "A" -> 1
      [] tok = "J" -> 999
      [] tok = "K" -> 1000
      [] tok = "L" -> 5000
      [] tok = "M" -> 1398078
      [] tok = "N" -> 2000000
      [] tok = "GHA-12345678-1" -> 14
      [] tok = "data:image/jpeg;" -> 16
      [] tok = "base64," -> 7
      [] OTHER -> 1

RECURSIVE StrLen(_)
StrLen(s) == IF s = <<>> THEN 0 ELSE TokLen(Head(s)) + StrLen(Tail(s))

RECURSIVE TrimStart(_)
TrimStart(s) == IF s # <<>> /\ Head(s) = " " THEN TrimStart(Tail(s)) ELSE s

RECURSIVE TrimEnd(_)
TrimEnd(s) ==
    IF s # <<>> /\ s[Len(s)] = " " THEN TrimEnd(SubSeq(s, 1, Len(s) - 1)) ELSE s

\* String.prototype.trim
Trim(s) == TrimEnd(TrimStart(s))

\* String.prototype.includes
Includes(s, tok) == \E i \in 1..Len(s) : s[i] = tok

\* Index of the first occurrence of tok in s at or after position i, or
\* Len(s) + 1 when there is none.
RECURSIVE IndexFrom(_, _, _)
IndexFrom(s, tok, i) ==
    IF i > Len(s) THEN Len(s) + 1
    ELSE IF s[i] = tok THEN i ELSE IndexFrom(s, tok, i + 1)

\* s.split(tok)[1] for a string that includes tok: the text between the
\* first occurrence of tok and the next one (or the end of the string).
SplitSecond(s, tok) ==
    LET first == IndexFrom(s, tok, 1)
        next  == IndexFrom(s, tok, first + 1)
    IN  SubSeq(s, first + 1, next - 1)

\* JavaScript truthiness of a request field.
Truthy(v) ==
    CASE v.t = "undefined" -> FALSE
      [] v.t = "number" -> v.s # <<"0">>
      [] v.t = "string" -> v.s # <<>>
      [] OTHER -> TRUE

----------------------------------------------------------------------------
(* Accounts and sessions *)

UserIds == {1, 2, 3}
Anonymous == 0

InitUsers ==
    (1 :> [role |-> "admin", status |-> "active"]) @@
    (2 :> [role |-> "user", status |-> "active"]) @@
    (3 :> [role |-> "guest", status |-> "active"])

\* req.isAuthenticated(): the request carries the session of an account.
isAuthenticated(caller) == caller \in sessions

----------------------------------------------------------------------------
(* The collaborator's response body *)

NoData == [t |-> "absent", verified |-> "absent"]

DataVals ==
    {NoData,
     [t |-> "null", verified |-> "absent"],
     [t |-> "scalar", verified |-> "absent"],
     [t |-> "object", verified |-> "absent"]} \cup
    {[t |-> "object", verified |-> v] :
        v \in {"TRUE", "bool_true", "FALSE", "bool_false", "true", "null"}}

CodeVals == {"absent", "00", "01", "02", "03", "04", "05", "num_0"}

NotJson == [kind |-> "invalid", data |-> NoData, code |-> "absent"]

\* Every body the model knows: JSON objects with or without data and
\* responseCode, JSON null, a JSON scalar, a JSON array, and text that is
\* not JSON.
AllBodies ==
    {[kind |-> "object", data |-> d, code |-> c] : d \in DataVals, c \in CodeVals}
    \cup {[kind |-> k, data |-> NoData, code |-> "absent"] :
            k \in {"null", "scalar", "array"}}
    \cup {NotJson}

\* The bodies the request-level specification draws from.
Bodies ==
    {[kind |-> "object", data |-> NoData, code |-> "00"],
     [kind |-> "object", data |-> NoData, code |-> "01"],
     [kind |-> "object", data |-> [t |-> "object", verified |-> "TRUE"], code |-> "01"],
     [kind |-> "object", data |-> NoData, code |-> "absent"],
     NotJson}

\* The status derived with the responseCode table consulted first.
verificationStatus_CodeFirst(responseData) ==
    IF responseData.kind = "object" /\ responseData.code # "absent"
    THEN CASE responseData.code = "00" -> "approved"
           [] responseData.code \in {"01", "02", "03", "04"} -> "rejected"
           [] OTHER -> "pending"
    ELSE IF /\ responseData.kind = "object"
            /\ responseData.data.t = "object"
            /\ responseData.data.verified # "absent"
    THEN IF responseData.data.verified \in {"TRUE", "bool_true"}
         THEN "approved" ELSE "rejected"
    ELSE "pending"

\* routes.ts 503-542: the status derived from the parsed response.
verificationStatus(responseData) ==
    IF /\ responseData.kind = "object"
       /\ responseData.data.t = "object"
       /\ responseData.data.verified # "absent"
    THEN IF responseData.data.verified \in {"TRUE", "bool_true"}
         THEN "approved" ELSE "rejected"
    ELSE IF responseData.kind = "object" /\ responseData.code # "absent"
    THEN CASE responseData.code = "00" -> "approved"
           [] responseData.code \in {"01", "02", "03", "04"} -> "rejected"
           [] OTHER -> "pending"
    ELSE "pending"

----------------------------------------------------------------------------
(* Request inputs *)

Pin == "GHA-12345678-1"

\* pinNumber fields of the request body: missing, empty, blank, a card
\* number, a card number with surrounding whitespace, and the numbers 0
\* and 7 (JSON carries any type).
PinInputs ==
    {Undefined, Str(<<>>), Str(<<" ">>), Str(<<Pin>>), Str(<<" ", Pin, " ">>),
     Num("0"), Num("7")}

\* imageData fields of the request body: missing, empty, 1 character, 999
\* characters, 1000 characters raw, data-URIs around a short and a long
\* payload, and a number.
ImageInputs ==
    {Undefined, Str(<<>>), Str(<<"A">>), Str(<<"J">>), Str(<<"J", "A">>),
     Str(<<"data:image/jpeg;", "base64,", "A">>),
     Str(<<"data:image/jpeg;", "base64,", "K">>),
     Num("7")}

\* HTTP statuses the collaborator answers with.
ApiStatuses == {200, 400, 500}

StatusInputs == {"pending", "approved", "rejected", "bogus"}

\* The response field of an override: absent, or a note.
NoteInputs == {"", "note"}

NullResponse == [t |-> "null", note |-> "", body |-> NotJson]
NoteResponse(n) == [t |-> "note", note |-> n, body |-> NotJson]
JsonResponse(b) == [t |-> "json", note |-> "", body |-> b]

\* req.user.role as the handler sees it ("none" without a session).
RoleOf(caller) == IF isAuthenticated(caller) THEN users[caller].role ELSE "none"

----------------------------------------------------------------------------
(* POST /api/verify *)

NoRequestBody == [image |-> <<>>, pinNumber |-> <<>>]

IdleReq ==
    [pc |-> "idle", caller |-> Anonymous, authed |-> FALSE,
     pinNumber |-> Undefined, imageData |-> Undefined,
     extCalls |-> 0, requestBody |-> NoRequestBody,
     apiStatus |-> 0, responseData |-> NotJson, status |-> "none",
     inserted |-> 0, sent |-> 0, resStatus |-> 0, resError |-> "",
     resData |-> NotJson]

\* res.status(code).json({error, ...}) or res.sendStatus(code): the
\* response of a request that ends here.
Respond(r, code, err) ==
    [r EXCEPT !.pc = "done", !.sent = @ + 1, !.resStatus = code, !.resError = err]

\* The image forwarded as it was received.
base64Data_Whole(imageData) == imageData

\* routes.ts 359-367: the base64 payload taken from imageData.
base64Data(imageData) ==
    IF Includes(imageData, "base64,")
    THEN SplitSecond(imageData, "base64,")
    ELSE imageData

\* A handler that lets every request through.
unauthenticated_Unchecked(authed) == FALSE

\* routes.ts 313: if (!req.isAuthenticated()) return res.sendStatus(401)
unauthenticated(authed) == ~authed

\* routes.ts 312-498: authentication, input validation and the request to
\* the collaborator, up to the await of fetch().  The result is the
\* request with its response sent, or waiting for the collaborator.
Received(caller, authed, pinNumber, imageData) ==
    LET r == [IdleReq EXCEPT !.caller = caller, !.authed = authed,
                             !.pinNumber = pinNumber, !.imageData = imageData]
    IN  IF unauthenticated(authed)
        THEN Respond(r, 401, "Unauthorized")
        ELSE IF ~Truthy(pinNumber)
        THEN Respond(r, 400, "Ghana Card Number is required")
        ELSE IF pinNumber.t # "string"
        THEN \* pinNumber.trim is not a function: caught at 609
             Respond(r, 500, "Verification failed")
        ELSE IF Trim(pinNumber.s) = <<>>
        THEN Respond(r, 400, "Ghana Card Number is required")
        ELSE IF ~Truthy(imageData)
        THEN Respond(r, 400, "Image data is required")
        ELSE IF imageData.t = "string" /\ StrLen(imageData.s) < 1000
        THEN Respond(r, 422, "Invalid image data")
        ELSE IF imageData.t # "string"
        THEN \* imageData.includes is not a function: caught at 609
             Respond(r, 500, "Verification failed")
        ELSE [r EXCEPT !.pc = "fetching", !.extCalls = @ + 1,
                       !.requestBody = [image |-> base64Data(imageData.s),
                                        pinNumber |-> Trim(pinNumber.s)]]

\* A rejection of fetch() that nothing catches: the handler ends without
\* a response.
FetchThrew_Uncaught(r) == [r EXCEPT !.pc = "done"]

\* routes.ts 488-498, 609-616: fetch() rejects (network error).
FetchThrew(r) == Respond(r, 500, "Verification failed")

\* routes.ts 488-544: fetch() resolves with an HTTP status and a body;
\* apiResponse.json() parses the body and the status is derived from it.
Fetched(r, apiStatus, body) ==
    IF body.kind = "invalid"
    THEN Respond([r EXCEPT !.apiStatus = apiStatus], 500, "Verification failed")
    ELSE [r EXCEPT !.pc = "storing", !.apiStatus = apiStatus,
                   !.responseData = body, !.status = verificationStatus(body)]

\* What the database does with the insert and the read-back that follows.
StoreOutcomes == {"ok", "insertFails", "selectFails"}

\* routes.ts 563-572: the row written for the request.
NewRow(r, table) ==
    [id |-> Len(table) + 1, userId |-> r.caller,
     pinNumber |-> r.pinNumber.s, imageData |-> r.imageData.s,
     status |-> r.status, response |-> JsonResponse(r.responseData)]

\* routes.ts 564-599: the table after the insert.
TableAfter(r, outcome, table) ==
    IF outcome = "insertFails" THEN table ELSE Append(table, NewRow(r, table))

\* routes.ts 601-608: the answer once the row is stored.
FinalAnswer(r) ==
    IF r.apiStatus \in 200..299
    THEN [r EXCEPT !.pc = "done", !.sent = @ + 1, !.resStatus = 200,
                   !.resData = r.responseData]
    ELSE [r EXCEPT !.pc = "done", !.sent = @ + 1, !.resStatus = r.apiStatus,
                   !.resError = "External verification failed",
                   !.resData = r.responseData]

\* routes.ts 563-616: the request after the insert, the read-back of the
\* stored image and the answer to the caller.
Stored(r, outcome) ==
    CASE outcome = "insertFails" -> Respond(r, 500, "Verification failed")
      [] outcome = "selectFails" ->
            Respond([r EXCEPT !.inserted = @ + 1], 500, "Verification failed")
      [] OTHER -> FinalAnswer([r EXCEPT !.inserted = @ + 1])

\* A request arrives; cap bounds the rows of the table.
VerifyReceive(cap, caller, pinNumber, imageData) ==
    /\ vreq.pc \in {"idle", "done"}
    /\ vreq' = Received(caller, isAuthenticated(caller), pinNumber, imageData)
    /\ vreq'.pc = "fetching" => Len(verifications) < cap
    /\ UNCHANGED <<users, sessions, verifications, res, clientVars, boot>>

VerifyFetchThrows ==
    /\ vreq.pc = "fetching"
    /\ vreq' = FetchThrew(vreq)
    /\ UNCHANGED <<users, sessions, verifications, res, clientVars, boot>>

VerifyFetchResponds(apiStatus, body) ==
    /\ vreq.pc = "fetching"
    /\ vreq' = Fetched(vreq, apiStatus, body)
    /\ UNCHANGED <<users, sessions, verifications, res, clientVars, boot>>

VerifyStore(outcome) ==
    /\ vreq.pc = "storing"
    /\ verifications' = TableAfter(vreq, outcome, verifications)
    /\ vreq' = Stored(vreq, outcome)
    /\ UNCHANGED <<users, sessions, res, clientVars, boot>>

----------------------------------------------------------------------------
(* The review routes *)

NoRes == [op |-> "none", caller |-> Anonymous, role |-> "none", code |-> 0,
          err |-> "", rows |-> <<>>, data |-> NotJson]

Answer(op, caller, code, err, rows) ==
    [op |-> op, caller |-> caller, role |-> RoleOf(caller), code |-> code,
     err |-> err, rows |-> rows, data |-> NotJson]

\* What the collaborator does with one request: the call throws, or it
\* answers with a status and a body.
Throws == [throws |-> TRUE, status |-> 0, body |-> NotJson]
Answers(apiStatus, body) == [throws |-> FALSE, status |-> apiStatus, body |-> body]

\* routes.ts 312-616 from request to response.  The handler reads no
\* shared state after the authentication check and writes only its own
\* row, so the steps other requests could interleave with are taken at
\* once here.
Submit(cap, caller, pinNumber, imageData, ext, outcome) ==
    LET r1 == Received(caller, isAuthenticated(caller), pinNumber, imageData)
        r2 == IF r1.pc # "fetching" THEN r1
              ELSE IF ext.throws THEN FetchThrew(r1)
              ELSE Fetched(r1, ext.status, ext.body)
        r3 == IF r2.pc = "storing" THEN Stored(r2, outcome) ELSE r2
    IN  /\ r1.pc = "fetching" => Len(verifications) < cap
        /\ verifications' = IF r2.pc = "storing"
                            THEN TableAfter(r2, outcome, verifications)
                            ELSE verifications
        /\ res' = [Answer("POST /api/verify", caller, r3.resStatus, r3.resError, <<>>)
                      EXCEPT !.data = r3.resData]
        /\ UNCHANGED <<users, sessions, vreq, clientVars, boot>>

\* The id of a request whose path segment parseInt() turns into NaN.
NaNId == 0

\* routes.ts 292-299: UPDATE ... SET status, response WHERE id = ...
UpdateVerification(id, status, response) ==
    [i \in 1..Len(verifications) |->
        IF verifications[i].id = id
        THEN [verifications[i] EXCEPT !.status = status, !.response = response]
        ELSE verifications[i]]

\* A guard that asks for a session only.
adminOnly_SessionOnly(caller) == ~isAuthenticated(caller)

\* routes.ts 279: the guard of the administrator routes
adminOnly(caller) == ~isAuthenticated(caller) \/ users[caller].role # "admin"

\* routes.ts 287: the status values an override may carry
validStatus(status) == status \in {"pending", "approved", "rejected"}

\* routes.ts 278-310
PatchVerification(caller, id, status, note, dbFails) ==
    /\ IF adminOnly(caller)
       THEN /\ res' = Answer("PATCH /api/verifications/:id", caller, 401,
                             "Unauthorized", <<>>)
            /\ UNCHANGED verifications
       ELSE IF ~validStatus(status)
       THEN /\ res' = Answer("PATCH /api/verifications/:id", caller, 400,
                             "Invalid status", <<>>)
            /\ UNCHANGED verifications
       ELSE IF dbFails
       THEN /\ res' = Answer("PATCH /api/verifications/:id", caller, 500,
                             "Failed to update verification", <<>>)
            /\ UNCHANGED verifications
       ELSE IF id \notin 1..Len(verifications)
       THEN /\ res' = Answer("PATCH /api/verifications/:id", caller, 404,
                             "Verification not found", <<>>)
            /\ UNCHANGED verifications
       ELSE /\ verifications' =
                  UpdateVerification(id, status,
                      IF note = "" THEN NullResponse ELSE NoteResponse(note))
            /\ res' = Answer("PATCH /api/verifications/:id", caller, 200, "",
                             <<verifications'[id]>>)
    /\ UNCHANGED <<users, sessions, vreq, clientVars, boot>>

\* routes.ts 627-645: a row joined with its submitter.
Joined(row) ==
    [id |-> row.id, userId |-> row.userId, pinNumber |-> row.pinNumber,
     imageData |-> row.imageData, status |-> row.status,
     response |-> row.response, userRole |-> users[row.userId].role]

\* routes.ts 620-652
GetVerifications(caller, dbFails) ==
    /\ IF adminOnly(caller)
       THEN res' = Answer("GET /api/verifications", caller, 401, "Unauthorized", <<>>)
       ELSE IF dbFails
       THEN res' = Answer("GET /api/verifications", caller, 500,
                          "Failed to fetch verifications", <<>>)
       ELSE res' = Answer("GET /api/verifications", caller, 200, "",
                          [i \in 1..Len(verifications) |-> Joined(verifications[i])])
    /\ UNCHANGED <<users, sessions, verifications, vreq, clientVars, boot>>

\* routes.ts 655-698
GetVerification(caller, id, dbFails) ==
    /\ IF adminOnly(caller)
       THEN res' = Answer("GET /api/verifications/:id", caller, 401, "Unauthorized", <<>>)
       ELSE IF id = NaNId
       THEN res' = Answer("GET /api/verifications/:id", caller, 400,
                          "Invalid verification ID", <<>>)
       ELSE IF dbFails
       THEN res' = Answer("GET /api/verifications/:id", caller, 500,
                          "Failed to fetch verification", <<>>)
       ELSE IF id \notin 1..Len(verifications)
       THEN res' = Answer("GET /api/verifications/:id", caller, 404,
                          "Verification not found", <<>>)
       ELSE res' = Answer("GET /api/verifications/:id", caller, 200, "",
                          <<Joined(verifications[id])>>)
    /\ UNCHANGED <<users, sessions, verifications, vreq, clientVars, boot>>

\* The select without its where clause.
OwnRows_Unfiltered(caller) == verifications

\* routes.ts 705-707: SELECT ... WHERE user_id = req.user.id
OwnRows(caller) ==
    LET Own(row) == row.userId = caller IN SelectSeq(verifications, Own)

\* routes.ts 701-713
GetUserVerifications(caller, dbFails) ==
    /\ IF ~isAuthenticated(caller)
       THEN res' = Answer("GET /api/user/verifications", caller, 401,
                          "Unauthorized", <<>>)
       ELSE IF dbFails
       THEN res' = Answer("GET /api/user/verifications", caller, 500,
                          "Failed to fetch user verifications", <<>>)
       ELSE res' = Answer("GET /api/user/verifications", caller, 200, "",
                          OwnRows(caller))
    /\ UNCHANGED <<users, sessions, verifications, vreq, clientVars, boot>>

\* routes.ts 61-77, 141-156: the local strategy finds the account and
\* compares the password; req.login() establishes the session.
Login(u, passwordOk) ==
    /\ u \in DOMAIN users
    /\ IF passwordOk
       THEN sessions' = sessions \cup {u}
       ELSE UNCHANGED sessions
    /\ UNCHANGED <<users, verifications, vreq, res, clientVars, boot>>

\* routes.ts 716-723
Logout(u) ==
    /\ u \in sessions
    /\ sessions' = sessions \ {u}
    /\ UNCHANGED <<users, verifications, vreq, res, clientVars, boot>>

----------------------------------------------------------------------------
(* The account routes *)

\* users.id is a serial: the id of the next row is one more than the
\* ids in use.
NextUserId ==
    1 + (CHOOSE m \in DOMAIN users : \A u \in DOMAIN users : u <= m)

\* A registration that keeps the role of the request body.
registeredRole_FromBody(role) == IF role = "" THEN "guest" ELSE role

\* routes.ts 119-123: { ...result.data, password, role: "guest", status }
registeredRole(role) == "guest"

\* routes.ts 97-138; valid is the verdict of insertUserSchema on the body,
\* existingUser whether the username is taken, role the role field of the
\* body ("" when it has none), outcome what the insert and req.login()
\* do ("ok", "insertFails", "loginFails"); cap bounds the accounts
\* registered.
Register(cap, valid, existingUser, role, outcome) ==
    /\ IF ~valid
       THEN /\ res' = Answer("POST /api/register", Anonymous, 400,
                             "Validation error", <<>>)
            /\ UNCHANGED <<users, sessions>>
       ELSE IF existingUser
       THEN /\ res' = Answer("POST /api/register", Anonymous, 400,
                             "Username already exists", <<>>)
            /\ UNCHANGED <<users, sessions>>
       ELSE IF outcome = "insertFails"
       THEN /\ res' = Answer("POST /api/register", Anonymous, 500,
                             "Failed to register user", <<>>)
            /\ UNCHANGED <<users, sessions>>
       ELSE /\ NextUserId <= Cardinality(UserIds) + cap
            /\ users' = users @@
                  (NextUserId :> [role |-> registeredRole(role), status |-> "active"])
            /\ IF outcome = "loginFails"
               THEN /\ res' = Answer("POST /api/register", Anonymous, 500,
                                     "Failed to log in after registration", <<>>)
                    /\ UNCHANGED sessions
               ELSE /\ res' = Answer("POST /api/register", Anonymous, 201, "", <<>>)
                    /\ sessions' = sessions \cup {NextUserId}
    /\ UNCHANGED <<verifications, vreq, clientVars, boot>>

\* A guard that lets every caller set a role.
roleChangeRefused_Never(caller, role) == FALSE

\* routes.ts 193: if (role && req.user.role !== "admin")
roleChangeRefused(caller, role) == role # "" /\ RoleOf(caller) # "admin"

\* routes.ts 198-207: UPDATE users SET ...(role && { role }) WHERE id = ...
UpdateUser(userId, role) ==
    [u \in DOMAIN users |->
        IF u = userId /\ role # "" THEN [users[u] EXCEPT !.role = role] ELSE users[u]]

\* routes.ts 182-214; otherFields tells whether the body carries one of
\* username, fullName, email and department.  An update without any
\* field to set throws.
PatchUser(caller, userId, role, otherFields, dbFails) ==
    /\ IF ~isAuthenticated(caller)
       THEN /\ res' = Answer("PATCH /api/users/:id", caller, 401, "Unauthorized", <<>>)
            /\ UNCHANGED users
       ELSE IF RoleOf(caller) # "admin" /\ caller # userId
       THEN /\ res' = Answer("PATCH /api/users/:id", caller, 403, "Forbidden", <<>>)
            /\ UNCHANGED users
       ELSE IF roleChangeRefused(caller, role)
       THEN /\ res' = Answer("PATCH /api/users/:id", caller, 403, "Forbidden", <<>>)
            /\ UNCHANGED users
       ELSE IF dbFails \/ (role = "" /\ ~otherFields)
       THEN /\ res' = Answer("PATCH /api/users/:id", caller, 500,
                             "Failed to update user", <<>>)
            /\ UNCHANGED users
       ELSE /\ users' = UpdateUser(userId, role)
            /\ res' = Answer("PATCH /api/users/:id", caller, 200, "", <<>>)
    /\ UNCHANGED <<sessions, verifications, vreq, clientVars, boot>>

\* schema: verifications.user_id references users.id
HasVerifications(userId) ==
    \E i \in 1..Len(verifications) : verifications[i].userId = userId

\* routes.ts 217-242.  The session of a deleted account no longer
\* deserializes to a user (83-94).
DeleteUser(caller, userId, dbFails) ==
    /\ IF adminOnly(caller)
       THEN /\ res' = Answer("DELETE /api/users/:id", caller, 401, "Unauthorized", <<>>)
            /\ UNCHANGED <<users, sessions>>
       ELSE IF caller = userId
       THEN /\ res' = Answer("DELETE /api/users/:id", caller, 400,
                             "Cannot delete your own account", <<>>)
            /\ UNCHANGED <<users, sessions>>
       ELSE IF dbFails \/ HasVerifications(userId)
       THEN /\ res' = Answer("DELETE /api/users/:id", caller, 500,
                             "Failed to delete user", <<>>)
            /\ UNCHANGED <<users, sessions>>
       ELSE IF userId \notin DOMAIN users
       THEN /\ res' = Answer("DELETE /api/users/:id", caller, 404,
                             "User not found", <<>>)
            /\ UNCHANGED <<users, sessions>>
       ELSE /\ users' = [u \in DOMAIN users \ {userId} |-> users[u]]
            /\ sessions' = sessions \ {userId}
            /\ res' = Answer("DELETE /api/users/:id", caller, 200, "", <<>>)
    /\ UNCHANGED <<verifications, vreq, clientVars, boot>>

\* routes.ts 245-274
PatchUserStatus(caller, userId, status, dbFails) ==
    /\ IF adminOnly(caller)
       THEN /\ res' = Answer("PATCH /api/users/:id/status", caller, 401,
                             "Unauthorized", <<>>)
            /\ UNCHANGED users
       ELSE IF status \notin {"active", "suspended", "pending"}
       THEN /\ res' = Answer("PATCH /api/users/:id/status", caller, 400,
                             "Invalid status", <<>>)
            /\ UNCHANGED users
       ELSE IF dbFails
       THEN /\ res' = Answer("PATCH /api/users/:id/status", caller, 500,
                             "Failed to update user status", <<>>)
            /\ UNCHANGED users
       ELSE IF userId \notin DOMAIN users
       THEN /\ res' = Answer("PATCH /api/users/:id/status", caller, 404,
                             "User not found", <<>>)
            /\ UNCHANGED users
       ELSE /\ users' = [users EXCEPT ![userId].status = status]
            /\ res' = Answer("PATCH /api/users/:id/status", caller, 200, "", <<>>)
    /\ UNCHANGED <<sessions, verifications, vreq, clientVars, boot>>

----------------------------------------------------------------------------
(* The capture session (webcam-capture.tsx) *)

CAPTURE_WIDTH == 640
CAPTURE_HEIGHT == 480
MAX_FILE_SIZE == 1048576
MIN_BRIGHTNESS == 100
MAX_BRIGHTNESS == 200
MIN_CONTRAST == 30
MOVEMENT_THRESHOLD == 20
MOVEMENT_HISTORY_LENGTH == 10
MAX_FACES_ALLOWED == 4

Abs(n) == IF n < 0 THEN -n ELSE n

\* The eight keypoints detectGlasses() looks for.
KeypointNames ==
    {"leftEye", "rightEye", "leftEyeOuter", "leftEyeInner",
     "rightEyeOuter", "rightEyeInner", "leftEyebrow", "rightEyebrow"}

\* A keypoint: pixel coordinates and a confidence in hundredths; NoScore
\* stands for a keypoint without a score (the comparisons on it are then
\* comparisons with NaN).
NoScore == -1
Keypoint(x, y, score) == [x |-> x, y |-> y, score |-> score]

\* face.keypoints: absent, or the keypoints found, by name.
NoKeypoints == [present |-> FALSE, pts |-> [n \in {} |-> Keypoint(0, 0, NoScore)]]
Keypoints(pts) == [present |-> TRUE, pts |-> pts]

\* The keypoints of a face whose box is 320 wide, all eight of them.
\* browGap: eye to eyebrow distance; eyeWidth: outer to inner corner;
\* scores: the confidences of the two eyes; span: distance between the
\* outer corners.
AllPoints(browGap, eyeWidth, scores, span) ==
    [n \in KeypointNames |->
        CASE n = "leftEye" -> Keypoint(250, 200, scores[1])
          [] n = "rightEye" -> Keypoint(390, 200, scores[2])
          [] n = "leftEyebrow" -> Keypoint(250, 200 - browGap, NoScore)
          [] n = "rightEyebrow" -> Keypoint(390, 200 - browGap, NoScore)
          [] n = "leftEyeOuter" -> Keypoint(220, 200, NoScore)
          [] n = "leftEyeInner" -> Keypoint(220 + eyeWidth, 200, NoScore)
          [] n = "rightEyeOuter" -> Keypoint(220 + span, 200, NoScore)
          [] n = "rightEyeInner" -> Keypoint(220 + span - eyeWidth, 200, NoScore)]

\* The keypoints of names only.
Only(names, pts) == [n \in names |-> pts[n]]

\* No signal fires; every signal fires.
PlainPoints == AllPoints(0, 30, <<90, 90>>, 100)
GlassesPoints == AllPoints(10, 50, <<50, 70>>, 200)

\* A face as estimateFaces() returns it: the box and the keypoints.
Face(x, y, w, h, kp) == [x |-> x, y |-> y, width |-> w, height |-> h, keypoints |-> kp]

\* A centred face of the right size, the same face displaced by exactly
\* 20 and by 21 pixels (|dx| + |dy|), and a small off-centre face with
\* glasses.
FaceA == Face(160, 80, 320, 320, Keypoints(PlainPoints))
FaceB == Face(170, 90, 320, 320, Keypoints(PlainPoints))
FaceC == Face(170, 91, 320, 320, Keypoints(PlainPoints))
FaceD == Face(10, 10, 100, 100, Keypoints(GlassesPoints))

\* Results of one estimateFaces() call.
FaceInputs == {<<>>, <<FaceA>>, <<FaceB>>, <<FaceC>>, <<FaceD>>, <<FaceA, FaceD>>}

\* Brightness and contrast of a frame.
LightInputs ==
    {[brightness |-> 150, contrast |-> 50], [brightness |-> 50, contrast |-> 50],
     [brightness |-> 150, contrast |-> 10]}

NoImage == <<"null">>

\* webcam-capture.tsx 357-364: face.keypoints.find(kp => kp.name === name)
Found(face, name) == name \in DOMAIN face.keypoints.pts

Point(face, name) == face.keypoints.pts[name]

\* webcam-capture.tsx 381-390: eyebrow to eye distance, average above 0.15
Method1(face) ==
    /\ Found(face, "leftEye") /\ Found(face, "leftEyebrow")
    /\ Found(face, "rightEye") /\ Found(face, "rightEyebrow")
    /\ 100 * (Abs(Point(face, "leftEye").y - Point(face, "leftEyebrow").y)
              + Abs(Point(face, "rightEye").y - Point(face, "rightEyebrow").y))
          > 2 * 15

\* webcam-capture.tsx 393-408: average eye width above 12% of the box
Method2(face) ==
    /\ Found(face, "leftEyeOuter") /\ Found(face, "leftEyeInner")
    /\ Found(face, "rightEyeOuter") /\ Found(face, "rightEyeInner")
    /\ 100 * (Abs(Point(face, "leftEyeOuter").x - Point(face, "leftEyeInner").x)
              + Abs(Point(face, "rightEyeOuter").x - Point(face, "rightEyeInner").x))
          > 2 * 12 * face.width

\* webcam-capture.tsx 411-418: the eyes' confidences differ by more than 0.1
Method3Diff(face) ==
    /\ Found(face, "leftEye") /\ Found(face, "rightEye")
    /\ Point(face, "leftEye").score # NoScore
    /\ Point(face, "rightEye").score # NoScore
    /\ Abs(Point(face, "leftEye").score - Point(face, "rightEye").score) > 10

\* webcam-capture.tsx 420-424: the eyes' average confidence is below 0.85
Method3Avg(face) ==
    /\ Found(face, "leftEye") /\ Found(face, "rightEye")
    /\ Point(face, "leftEye").score # NoScore
    /\ Point(face, "rightEye").score # NoScore
    /\ Point(face, "leftEye").score + Point(face, "rightEye").score < 2 * 85

\* webcam-capture.tsx 428-436: the outer corners span more than 45% of
\* the box
Method4(face) ==
    /\ Found(face, "leftEyeOuter") /\ Found(face, "rightEyeOuter")
    /\ 100 * Abs(Point(face, "rightEyeOuter").x - Point(face, "leftEyeOuter").x)
          > 45 * face.width

Points1(fired) == IF fired THEN 1 ELSE 0

\* webcam-capture.tsx 378-438: the value of glassesScore at line 438
glassesScore(face) ==
    Points1(Method1(face)) + Points1(Method2(face)) + Points1(Method3Diff(face))
        + Points1(Method3Avg(face)) + Points1(Method4(face))

\* webcam-capture.tsx 352-446
detectGlasses(face) ==
    IF ~face.keypoints.present THEN FALSE ELSE glassesScore(face) >= 2

\* webcam-capture.tsx 492-502: an entry of detectedFaces
Detected(face) ==
    [x |-> face.x, y |-> face.y, width |-> face.width, height |-> face.height,
     hasGlasses |-> detectGlasses(face)]

\* webcam-capture.tsx 438: the scores logged while the faces are mapped,
\* one line for every face that has keypoints
RECURSIVE FinalScores(_)
FinalScores(faces) ==
    IF faces = <<>> THEN <<>>
    ELSE IF Head(faces).keypoints.present
    THEN <<glassesScore(Head(faces))>> \o FinalScores(Tail(faces))
    ELSE FinalScores(Tail(faces))

\* A quality analysis that takes the sharpness from the latest lighting
\* sample.
analyzeImageQuality_NeedsLight(face) ==
    LET isCentered ==
            /\ 10 * Abs(2 * face.x + face.width - CAPTURE_WIDTH) < 2 * CAPTURE_WIDTH
            /\ 10 * Abs(2 * face.y + face.height - CAPTURE_HEIGHT) < 2 * CAPTURE_HEIGHT
        isRightSize ==
            /\ 10 * face.width >= 3 * CAPTURE_WIDTH
            /\ 10 * face.width <= 7 * CAPTURE_WIDTH
        isSharp == lightingStatus.isGood
        count == (IF isCentered THEN 1 ELSE 0) + (IF isRightSize THEN 1 ELSE 0)
                    + 1 + (IF isSharp THEN 1 ELSE 0)
    IN  [isCentered |-> isCentered, isRightSize |-> isRightSize,
         isStraight |-> TRUE, isSharp |-> isSharp, score |-> count * 25]

\* webcam-capture.tsx 448-482; the comparisons are scaled by 10 and by 2
\* to stay in the integers.
analyzeImageQuality(face) ==
    LET isCentered ==
            /\ 10 * Abs(2 * face.x + face.width - CAPTURE_WIDTH) < 2 * CAPTURE_WIDTH
            /\ 10 * Abs(2 * face.y + face.height - CAPTURE_HEIGHT) < 2 * CAPTURE_HEIGHT
        isRightSize ==
            /\ 10 * face.width >= 3 * CAPTURE_WIDTH
            /\ 10 * face.width <= 7 * CAPTURE_WIDTH
        count == (IF isCentered THEN 1 ELSE 0) + (IF isRightSize THEN 1 ELSE 0) + 2
    IN  [isCentered |-> isCentered, isRightSize |-> isRightSize,
         isStraight |-> TRUE, isSharp |-> TRUE, score |-> count * 25]

InitQuality ==
    [isCentered |-> FALSE, isRightSize |-> FALSE, isStraight |-> FALSE,
     isSharp |-> FALSE, score |-> 0]

\* A window that keeps the oldest samples and drops the new one when full.
newHistory_KeepsOldest(prev, primaryFace) ==
    IF Len(prev) >= MOVEMENT_HISTORY_LENGTH THEN prev ELSE Append(prev, primaryFace)

\* webcam-capture.tsx 514: [...prev, primaryFace].slice(-MOVEMENT_HISTORY_LENGTH)
newHistory(prev, primaryFace) ==
    LET all == Append(prev, primaryFace)
    IN  IF Len(all) > MOVEMENT_HISTORY_LENGTH
        THEN SubSeq(all, Len(all) - MOVEMENT_HISTORY_LENGTH + 1, Len(all))
        ELSE all

\* webcam-capture.tsx 516-518
movement(history) ==
    LET lastPos == history[Len(history)]
        prevPos == history[Len(history) - 1]
    IN  Abs(lastPos.x - prevPos.x) + Abs(lastPos.y - prevPos.y)

\* The comparison with the threshold included.
movementDetected_Inclusive(history) ==
    Len(history) >= 2 /\ movement(history) >= MOVEMENT_THRESHOLD

\* webcam-capture.tsx 515-519: the condition under which the updater
\* turns the flag on
movementDetected(history) ==
    Len(history) >= 2 /\ movement(history) > MOVEMENT_THRESHOLD

\* The flag following the latest movement.
isLiveAfter_Tracking(prev, history) == movementDetected(history)

\* webcam-capture.tsx 519-521: setIsLive(true) is the only write
isLiveAfter(prev, history) == prev \/ movementDetected(history)

\* webcam-capture.tsx 727-741: the <Webcam> element is rendered, so
\* webcamRef.current is set, only while no image is held.
webcamMounted == capturedImage = NoImage

\* webcam-capture.tsx 306-319
LoadModel ==
    /\ ~faceDetector
    /\ faceDetector' = TRUE
    /\ UNCHANGED <<serverVars, boot, glassesLog, form, faceDetected, facePositions, glassesDetected,
                   imageQuality, isLive, movementHistory, capturedImage,
                   lightingStatus, error, multipleFaces, pageImage, detecting, samples>>

\* webcam-capture.tsx 484-491, 570-573: a tick of the 100 ms interval, up
\* to the await of estimateFaces()
DetectStart ==
    /\ faceDetector
    /\ webcamMounted
    /\ detecting < MaxDetecting
    /\ detecting' = detecting + 1
    /\ UNCHANGED <<serverVars, boot, glassesLog, form, faceDetector, faceDetected, facePositions,
                   glassesDetected, imageQuality, isLive, movementHistory,
                   capturedImage, lightingStatus, error, multipleFaces,
                   pageImage, samples>>

\* webcam-capture.tsx 491-525: estimateFaces() resolves with faces; cap
\* bounds the samples a session is fed
DetectCycle(cap, faces) ==
    LET detectedFaces == [i \in 1..Len(faces) |-> Detected(faces[i])]
    IN  /\ detecting > 0
        /\ detecting' = detecting - 1
        /\ glassesLog' = FinalScores(faces)
        /\ facePositions' = detectedFaces
        /\ faceDetected' = (Len(detectedFaces) > 0)
        /\ multipleFaces' = (Len(detectedFaces) > 1)
        /\ glassesDetected' =
              (\E i \in 1..Len(detectedFaces) : detectedFaces[i].hasGlasses)
        /\ IF Len(detectedFaces) > 0
           THEN /\ samples < cap
                /\ imageQuality' = analyzeImageQuality(detectedFaces[1])
                /\ movementHistory' = newHistory(movementHistory, detectedFaces[1])
                /\ isLive' = isLiveAfter(isLive, movementHistory')
                /\ samples' = samples + 1
           ELSE UNCHANGED <<imageQuality, movementHistory, isLive, samples>>
        /\ UNCHANGED <<serverVars, boot, form, faceDetector, capturedImage,
                       lightingStatus, error, pageImage>>

DetectComplete(faces) == DetectCycle(MaxSamples, faces)

\* webcam-capture.tsx 526-528: estimateFaces() rejects; the error is logged
DetectError ==
    /\ detecting > 0
    /\ detecting' = detecting - 1
    /\ UNCHANGED <<serverVars, boot, glassesLog, form, faceDetector, faceDetected, facePositions,
                   glassesDetected, imageQuality, isLive, movementHistory,
                   capturedImage, lightingStatus, error, multipleFaces,
                   pageImage, samples>>

\* webcam-capture.tsx 575-590: a tick of the 1 s interval
checkLightingConditions(light) ==
    /\ webcamMounted
    /\ lightingStatus' =
          [brightness |-> light.brightness, contrast |-> light.contrast,
           isGood |-> /\ light.brightness >= MIN_BRIGHTNESS
                      /\ light.brightness <= MAX_BRIGHTNESS
                      /\ light.contrast >= MIN_CONTRAST]
    /\ UNCHANGED <<serverVars, boot, glassesLog, form, faceDetector, faceDetected, facePositions,
                   glassesDetected, imageQuality, isLive, movementHistory,
                   capturedImage, error, multipleFaces, pageImage, detecting,
                   samples>>

\* A gate that forgets the eyewear condition.
captureDisabled_IgnoresGlasses ==
    \/ ~lightingStatus.isGood
    \/ ~faceDetected
    \/ ~isLive
    \/ imageQuality.score < 75
    \/ Len(facePositions) > MAX_FACES_ALLOWED

\* webcam-capture.tsx 957-964: the disabled attribute of the capture button
captureDisabled ==
    \/ ~lightingStatus.isGood
    \/ ~faceDetected
    \/ ~isLive
    \/ imageQuality.score < 75
    \/ Len(facePositions) > MAX_FACES_ALLOWED
    \/ glassesDetected

\* A label that names the lighting before the liveness.
captureLabel_LightingFirst ==
    IF ~faceDetected THEN "No Face Detected"
    ELSE IF ~lightingStatus.isGood THEN "Adjust Lighting"
    ELSE IF ~isLive THEN "Confirm Liveness"
    ELSE IF imageQuality.score < 75 THEN "Follow Guidelines"
    ELSE IF Len(facePositions) > MAX_FACES_ALLOWED THEN "Too Many Faces"
    ELSE IF glassesDetected THEN "Remove Glasses"
    ELSE "Capture Photo"

\* webcam-capture.tsx 967-973: the text of the capture button
captureLabel ==
    IF ~faceDetected THEN "No Face Detected"
    ELSE IF ~isLive THEN "Confirm Liveness"
    ELSE IF ~lightingStatus.isGood THEN "Adjust Lighting"
    ELSE IF imageQuality.score < 75 THEN "Follow Guidelines"
    ELSE IF Len(facePositions) > MAX_FACES_ALLOWED THEN "Too Many Faces"
    ELSE IF glassesDetected THEN "Remove Glasses"
    ELSE "Capture Photo"

\* What the browser does with the frame handed to compressImage(): the
\* image loads or not, the canvas gives a 2d context or not, and
\* toDataURL() encodes the canvas into a base64 payload.
Frame(loaded, ctx, payload) == [loaded |-> loaded, ctx |-> ctx, payload |-> payload]

\* Encoded payloads of 1, 5000 and 1398078 characters (the longest a
\* desktop accepts) and of 2000000 characters (1.5 MB once decoded).
Payloads == {"A", "L", "M", "N"}

Frames ==
    {Frame(FALSE, TRUE, "A"), Frame(TRUE, FALSE, "A")}
        \cup {Frame(TRUE, TRUE, p) : p \in Payloads}

Resolved(value) == [ok |-> TRUE, value |-> value, message |-> ""]
Rejected(message) == [ok |-> FALSE, value |-> <<>>, message |-> message]

\* canvas.toDataURL('image/jpeg', quality)
toDataURL(payload) == <<"data:image/jpeg;", "base64,", payload>>

\* webcam-capture.tsx 29-258: the promise settles with the base64 payload
\* or with an error.  base64Size = (compressedImage.length * 3) / 4.
compressImage(isMobile, frame) ==
    IF ~frame.loaded
    THEN Rejected("Failed to load image. Please try again with better lighting.")
    ELSE IF ~frame.ctx
    THEN Rejected("Failed to get canvas context")
    ELSE IF isMobile
    THEN Resolved(SplitSecond(toDataURL(frame.payload), "base64,"))
    ELSE IF 3 * StrLen(toDataURL(frame.payload)) > 4 * MAX_FILE_SIZE
    THEN Rejected("Image size exceeds limit. Try moving closer to the camera or ensuring better lighting.")
    ELSE Resolved(SplitSecond(toDataURL(frame.payload), "base64,"))

\* A capture that keeps an image although the compression failed.
Captured_KeepsFrame(isMobile, compressed) ==
    IF ~compressed.ok
    THEN [error |-> compressed.message, image |-> <<"A">>]
    ELSE IF isMobile /\ StrLen(compressed.value) < 5000
    THEN [error |-> "Image quality is too low. Please ensure good lighting and position.",
          image |-> NoImage]
    ELSE [error |-> "null", image |-> compressed.value]

\* webcam-capture.tsx 652-668: the message shown and the image stored
\* once compressImage() has settled
Captured(isMobile, compressed) ==
    IF ~compressed.ok
    THEN [error |-> compressed.message, image |-> NoImage]
    ELSE IF isMobile /\ StrLen(compressed.value) < 5000
    THEN [error |-> "Image quality is too low. Please ensure good lighting and position.",
          image |-> NoImage]
    ELSE [error |-> "null", image |-> compressed.value]

\* webcam-capture.tsx 592-669: a click on the enabled capture button
capture(screenshot, light, isMobile, frame) ==
    /\ webcamMounted
    /\ ~captureDisabled
    /\ IF ~screenshot
       THEN error' = "Failed to capture image" /\ UNCHANGED capturedImage
       ELSE IF ~faceDetected
       THEN error' = "No face detected in frame" /\ UNCHANGED capturedImage
       ELSE IF ~isLive
       THEN error' = "Please move slightly to confirm liveness" /\ UNCHANGED capturedImage
       ELSE IF imageQuality.score < 75
       THEN error' = "Please adjust your position according to the guidelines"
            /\ UNCHANGED capturedImage
       ELSE IF light.brightness < MIN_BRIGHTNESS \/ light.brightness > MAX_BRIGHTNESS
       THEN error' = "Poor lighting conditions. Please adjust lighting."
            /\ UNCHANGED capturedImage
       ELSE IF light.contrast < MIN_CONTRAST
       THEN error' = "Image lacks contrast. Please improve lighting conditions."
            /\ UNCHANGED capturedImage
       ELSE LET result == Captured(isMobile, compressImage(isMobile, frame))
            IN  /\ error' = result.error
                /\ capturedImage' = result.image
    /\ UNCHANGED <<serverVars, boot, glassesLog, form, faceDetector, faceDetected, facePositions,
                   glassesDetected, imageQuality, isLive, movementHistory,
                   lightingStatus, multipleFaces, pageImage, detecting, samples>>

\* webcam-capture.tsx 671-718
confirmCapture ==
    /\ capturedImage # NoImage
    /\ IF StrLen(capturedImage) < 1000
       THEN /\ error' = "Image data appears to be corrupted or too small. Please retake the photo."
            /\ UNCHANGED pageImage
       ELSE /\ pageImage' = (IF Includes(capturedImage, "data:image/jpeg;")
                             THEN capturedImage
                             ELSE <<"data:image/jpeg;", "base64,">> \o capturedImage)
            /\ UNCHANGED error
    /\ UNCHANGED <<serverVars, boot, glassesLog, form, faceDetector, faceDetected, facePositions,
                   glassesDetected, imageQuality, isLive, movementHistory,
                   capturedImage, lightingStatus, multipleFaces, detecting, samples>>

\* webcam-capture.tsx 720-722
retake ==
    /\ capturedImage # NoImage
    /\ capturedImage' = NoImage
    /\ UNCHANGED <<serverVars, boot, glassesLog, form, faceDetector, faceDetected, facePositions,
                   glassesDetected, imageQuality, isLive, movementHistory,
                   lightingStatus, error, multipleFaces, pageImage, detecting,
                   samples>>

----------------------------------------------------------------------------
(* The verification form (verification-form.tsx) and its page *)

Digits == {"0", "1", "2", "3", "4", "5", "6", "7", "8", "9"}

\* Texts typed into the field, one token per character: nothing, six
\* spaces, a card number, the same in lowercase, with seven digits,
\* without hyphens, with a second check digit, and free text of six and
\* of five characters.
CardText == <<"G", "H", "A", "-", "1", "2", "3", "4", "5", "6", "7", "8", "-", "1">>

FormPins ==
    {<<>>,
     <<" ", " ", " ", " ", " ", " ">>,
     CardText,
     <<"g", "h", "a", "-", "1", "2", "3", "4", "5", "6", "7", "8", "-", "1">>,
     <<"G", "H", "A", "-", "1", "2", "3", "4", "5", "6", "7", "-", "1">>,
     <<"G", "H", "A", "1", "2", "3", "4", "5", "6", "7", "8", "1">>,
     CardText \o <<"2">>,
     <<"a", "b", "c", "d", "e", "f">>,
     <<"a", "b", "c", "d", "e">>}

\* /^GHA-\d{8}-\d$/.test(val)
GhanaCardPattern(val) ==
    /\ Len(val) = 14
    /\ SubSeq(val, 1, 4) = <<"G", "H", "A", "-">>
    /\ \A i \in 5..12 : val[i] \in Digits
    /\ val[13] = "-"
    /\ val[14] \in Digits

\* verification-form.tsx 27: the last refinement of the schema
accepted(val) == GhanaCardPattern(val) \/ StrLen(val) >= 6

\* verification-form.tsx 21-30: the message of the first check of the
\* schema that fails on val, "" when val passes
verificationFormSchema(val) ==
    IF StrLen(val) < 1 THEN "Ghana Card Number is required"
    ELSE IF Trim(val) = <<>> THEN "Ghana Card Number cannot be empty"
    ELSE IF ~accepted(val)
    THEN "Please enter a valid Ghana Card Number (e.g., GHA-12345678-1)"
    ELSE ""

\* verification-form.tsx 40-45: useForm() with its default values
InitForm == [pinNumber |-> <<>>, error |-> "", isSubmitted |-> FALSE]

\* verification-page.tsx 107-115: the form is rendered once the page
\* holds an image
formMounted == pageImage # NoImage

\* verification-form.tsx 64-67: the user edits the field; once the form
\* has been submitted the field is validated again on every change
typePin(val) ==
    /\ formMounted
    /\ form' = [form EXCEPT !.pinNumber = val,
                            !.error = IF form.isSubmitted
                                      THEN verificationFormSchema(val) ELSE @]
    /\ UNCHANGED <<serverVars, boot, faceDetector, faceDetected, facePositions,
                   glassesDetected, imageQuality, isLive, movementHistory,
                   capturedImage, lightingStatus, error, multipleFaces,
                   pageImage, detecting, samples, glassesLog>>

\* verification-form.tsx 47-54, verification-page.tsx 37-41, 63-77: a
\* click on the submit button (disabled while a request is pending).  The
\* field is validated; a valid form posts the card number with the image
\* the page holds, and the server handles the request up to fetch().
submitForm(cap, caller) ==
    /\ formMounted
    /\ vreq.pc \in {"idle", "done"}
    /\ form' = [form EXCEPT !.error = verificationFormSchema(form.pinNumber),
                            !.isSubmitted = TRUE]
    /\ IF verificationFormSchema(form.pinNumber) # ""
       THEN UNCHANGED vreq
       ELSE /\ vreq' = Received(caller, isAuthenticated(caller),
                                Str(form.pinNumber), Str(pageImage))
            /\ vreq'.pc = "fetching" => Len(verifications) < cap
    /\ UNCHANGED <<users, sessions, verifications, res, boot, faceDetector,
                   faceDetected, facePositions, glassesDetected, imageQuality,
                   isLive, movementHistory, capturedImage, lightingStatus,
                   error, multipleFaces, pageImage, detecting, samples,
                   glassesLog>>

----------------------------------------------------------------------------
(* Application startup (server/index.ts) *)

MAX_RETRIES == 5

NoExit == -1

\* index.ts 100-103: the process as the startup function begins; logged
\* is the k of the last 'attempt k/MAX_RETRIES' line, attempts the number
\* of test queries sent.
Booting(env) ==
    [pc |-> "start", env |-> env, retryCount |-> 0, attempts |-> 0,
     logged |-> 0, lastError |-> "none", thrown |-> "none",
     connected |-> FALSE, routes |-> FALSE, listening |-> FALSE,
     exitCode |-> NoExit]

\* index.ts 127-130: a process whose first connection attempt succeeded
\* and whose server is listening.
Running ==
    [Booting("production") EXCEPT !.pc = "listening", !.attempts = 1, !.logged = 1,
                                  !.connected = TRUE, !.routes = TRUE,
                                  !.listening = TRUE]

\* index.ts 89: if (retryCount < MAX_RETRIES)
retriesLeft(retryCount) == retryCount < MAX_RETRIES

\* A startup that logs the error and goes on.
startupCaught_GoesOn(b) == [b EXCEPT !.pc = "connected"]

\* index.ts 131-134: catch (error) { ...; process.exit(1) }
startupCaught(b) == [b EXCEPT !.pc = "exited", !.exitCode = 1]

\* index.ts 79-83, 92, 105: connectWithRetry() is entered, by the startup
\* function or by itself once the delay has passed; it logs the attempt
\* and sends the test query.
connectWithRetry ==
    /\ boot.pc \in {"start", "waiting"}
    /\ LET retryCount == IF boot.pc = "start" THEN 0 ELSE boot.retryCount + 1
       IN  boot' = [boot EXCEPT !.pc = "connecting", !.retryCount = retryCount,
                                !.logged = retryCount + 1, !.attempts = @ + 1]
    /\ UNCHANGED <<serverVars, clientVars>>

\* index.ts 83-85
ConnectSucceeds ==
    /\ boot.pc = "connecting"
    /\ boot' = [boot EXCEPT !.pc = "connected", !.connected = TRUE]
    /\ UNCHANGED <<serverVars, clientVars>>

\* index.ts 86-96: the test query rejects with err
ConnectFails(err) ==
    /\ boot.pc = "connecting"
    /\ boot' = IF retriesLeft(boot.retryCount)
               THEN [boot EXCEPT !.pc = "waiting", !.lastError = err]
               ELSE [boot EXCEPT !.pc = "failed", !.lastError = err, !.thrown = err]
    /\ UNCHANGED <<serverVars, clientVars>>

\* index.ts 105, 131-134: connectWithRetry() has thrown
StartupFails ==
    /\ boot.pc = "failed"
    /\ boot' = startupCaught(boot)
    /\ UNCHANGED <<serverVars, clientVars>>

\* index.ts 107-115
RegisterRoutes ==
    /\ boot.pc = "connected"
    /\ boot' = [boot EXCEPT !.pc = "registered", !.routes = TRUE]
    /\ UNCHANGED <<serverVars, clientVars>>

\* index.ts 117-121: setupVite() in development, serveStatic() otherwise;
\* either may throw (no build directory, for one).
ServeClient(throws) ==
    /\ boot.pc = "registered"
    /\ boot' = IF throws THEN startupCaught(boot) ELSE [boot EXCEPT !.pc = "serving"]
    /\ UNCHANGED <<serverVars, clientVars>>

\* index.ts 123-130
Listen ==
    /\ boot.pc = "serving"
    /\ boot' = [boot EXCEPT !.pc = "listening", !.listening = TRUE]
    /\ UNCHANGED <<serverVars, clientVars>>

----------------------------------------------------------------------------
(* Specifications *)

Init ==
    /\ users = InitUsers
    /\ sessions = {}
    /\ verifications = <<>>
    /\ vreq = IdleReq
    /\ res = NoRes
    /\ faceDetector = FALSE
    /\ faceDetected = FALSE
    /\ facePositions = <<>>
    /\ glassesDetected = FALSE
    /\ imageQuality = InitQuality
    /\ isLive = FALSE
    /\ movementHistory = <<>>
    /\ capturedImage = NoImage
    /\ lightingStatus = [brightness |-> 0, contrast |-> 0, isGood |-> FALSE]
    /\ error = "null"
    /\ multipleFaces = FALSE
    /\ pageImage = NoImage
    /\ detecting = 0
    /\ samples = 0
    /\ glassesLog = <<>>
    /\ form = InitForm
    /\ boot = Running

\* The process at its start, in either environment, with the tables as
\* the other specifications find them.
InitStartup ==
    /\ users = InitUsers
    /\ sessions = {}
    /\ verifications = <<>>
    /\ vreq = IdleReq
    /\ res = NoRes
    /\ faceDetector = FALSE
    /\ faceDetected = FALSE
    /\ facePositions = <<>>
    /\ glassesDetected = FALSE
    /\ imageQuality = InitQuality
    /\ isLive = FALSE
    /\ movementHistory = <<>>
    /\ capturedImage = NoImage
    /\ lightingStatus = [brightness |-> 0, contrast |-> 0, isGood |-> FALSE]
    /\ error = "null"
    /\ multipleFaces = FALSE
    /\ pageImage = NoImage
    /\ detecting = 0
    /\ samples = 0
    /\ glassesLog = <<>>
    /\ form = InitForm
    /\ \E env \in {"development", "production"} : boot = Booting(env)

\* Requests of the review specification: one well-formed submission
\* body, and a collaborator that throws or answers.
ReviewPin == Str(<<" ", Pin, " ">>)
ReviewImage == Str(<<"data:image/jpeg;", "base64,", "K">>)
ReviewExt ==
    {Throws,
     Answers(200, [kind |-> "object", data |-> NoData, code |-> "00"]),
     Answers(200, [kind |-> "object", data |-> NoData, code |-> "absent"])}
ReviewCallers == {1, 2}

\* The server as the reviewers see it: submissions, overrides and reads
\* arrive in any order with the cookie of the administrator (1) or of a
\* user (2); a cookie is a session only once its account has logged in.
\* The administrator routes return before they read the request of a
\* caller who is not an administrator, so that caller varies the status
\* only.
Next ==
    \/ \E u \in {1, 2} : Login(u, TRUE)
    \/ \E c \in ReviewCallers, e \in ReviewExt, o \in {"ok", "insertFails"} :
          Submit(MaxRows, c, ReviewPin, ReviewImage, e, o)
    \/ \E id \in 1..(MaxRows + 1), st \in StatusInputs, n \in NoteInputs :
          PatchVerification(1, id, st, n, FALSE)
    \/ \E c \in ReviewCallers \ {1}, st \in StatusInputs :
          PatchVerification(c, 1, st, "", FALSE)
    \/ \E c \in ReviewCallers : PatchVerification(c, 1, "approved", "", TRUE)
    \/ \E c \in ReviewCallers, f \in BOOLEAN : GetVerifications(c, f)
    \/ \E c \in ReviewCallers, id \in {NaNId, 1, MaxRows + 1} :
          GetVerification(c, id, FALSE)
    \/ \E c \in ReviewCallers : GetVerification(c, 1, TRUE)
    \/ \E c \in ReviewCallers, f \in BOOLEAN : GetUserVerifications(c, f)

Spec == Init /\ [][Next]_vars

\* One submission at a time, step by step, with every request body and
\* every behaviour of the collaborator and of the database.  The requests
\* carry the cookie of user 2, a session only while the user is logged
\* in, or no cookie at all; the handler answers a request without a
\* session before it reads the body, so the body varies with user 2 only.

NextSubmit ==
    \/ \E ok \in BOOLEAN : Login(2, ok)
    \/ Logout(2)
    \/ \E p \in PinInputs, i \in ImageInputs :
          VerifyReceive(MaxSubmitRows, 2, p, i)
    \/ VerifyReceive(MaxSubmitRows, Anonymous, ReviewPin, ReviewImage)
    \/ VerifyFetchThrows
    \/ \E st \in ApiStatuses, b \in Bodies : VerifyFetchResponds(st, b)
    \/ \E o \in StoreOutcomes : VerifyStore(o)

SpecSubmit == Init /\ [][NextSubmit]_vars

\* Whole submissions of one user against every response body and every
\* collaborator status.
StatusExt == {Throws} \cup {Answers(st, b) : st \in {200, 500}, b \in AllBodies}

NextStatus ==
    \/ Login(2, TRUE)
    \/ \E e \in StatusExt : Submit(MaxSubmitRows, 2, ReviewPin, ReviewImage, e, "ok")

SpecStatus == Init /\ [][NextStatus]_vars

GoodLight == [brightness |-> 150, contrast |-> 50]

\* Frames of the capture session: one that encodes to a single character,
\* one that encodes to 5000, and one for which no canvas context is given.
CaptureFrames ==
    {Frame(TRUE, TRUE, "A"), Frame(TRUE, TRUE, "L"), Frame(TRUE, FALSE, "A")}

\* The capture session: timers and user actions in any order.
NextCapture ==
    \/ LoadModel
    \/ DetectStart
    \/ \E faces \in FaceInputs : DetectComplete(faces)
    \/ DetectError
    \/ \E light \in LightInputs : checkLightingConditions(light)
    \/ \E s \in BOOLEAN, light \in LightInputs, m \in BOOLEAN,
          f \in CaptureFrames : capture(s, light, m, f)
    \/ confirmCapture
    \/ retake

SpecCapture == Init /\ [][NextCapture]_vars

\* Captures of a moving face in good light, on mobile and on desktop, with
\* every behaviour of the browser while the frame is compressed.
NextCompress ==
    \/ LoadModel
    \/ DetectStart
    \/ \E faces \in {<<FaceA>>, <<FaceC>>} : DetectCycle(MaxPageSamples, faces)
    \/ checkLightingConditions(GoodLight)
    \/ \E s \in BOOLEAN, light \in LightInputs, m \in BOOLEAN, f \in Frames :
          capture(s, light, m, f)
    \/ confirmCapture
    \/ retake

SpecCompress == Init /\ [][NextCompress]_vars

\* A long session of the detector alone: enough samples of two faces to
\* fill the movement history and evict from it.
HistoryFaces == {<<>>, <<FaceA>>, <<FaceC>>}

NextHistory ==
    \/ LoadModel
    \/ DetectStart
    \/ \E faces \in HistoryFaces : DetectCycle(MaxHistorySamples, faces)
    \/ DetectError

SpecHistory == Init /\ [][NextHistory]_vars

\* The detector alone on faces with every subset of the eight keypoints
\* and, with all of them present, every combination of the values the
\* signals of detectGlasses() look at; also a face without keypoints and
\* a frame without a face.
ScoreInputs == {<<90, 90>>, <<100, 88>>, <<80, 80>>, <<50, 70>>, <<NoScore, NoScore>>}

GlassesFaces ==
    {Face(160, 80, 320, 320, Keypoints(Only(names, pts))) :
        names \in SUBSET KeypointNames, pts \in {PlainPoints, GlassesPoints}}
    \cup {Face(x, 80, 320, 320, Keypoints(AllPoints(gap, w, sc, span))) :
            x \in {160, 200}, gap \in {0, 10}, w \in {30, 50},
            sc \in ScoreInputs, span \in {100, 200}}
    \cup {Face(160, 80, 320, 320, NoKeypoints)}

NextGlasses ==
    \/ LoadModel
    \/ DetectStart
    \/ \E face \in GlassesFaces : DetectComplete(<<face>>)
    \/ DetectComplete(<<>>)
    \/ DetectError

SpecGlasses == Init /\ [][NextGlasses]_vars

\* The detector alone on boxes around the limits of analyzeImageQuality():
\* centres 63, 64 and 65 pixels off the middle horizontally, 47 and 48
\* vertically, and widths around 30% (192) and 70% (448) of the frame.
QualityFaces ==
    {Face(160 + dx, 80, 320, 320, NoKeypoints) : dx \in {-64, 0, 63, 64, 65}}
    \cup {Face(160, 80 + dy, 320, 320, NoKeypoints) : dy \in {-48, 47, 48}}
    \cup {Face(320 - (w \div 2), 80, w, 320, NoKeypoints) : w \in {190, 192, 448, 450}}

NextQuality ==
    \/ LoadModel
    \/ DetectStart
    \/ \E face \in QualityFaces : DetectComplete(<<face>>)
    \/ DetectComplete(<<>>)
    \/ DetectError

SpecQuality == Init /\ [][NextQuality]_vars

\* The two timers of the capture session alone: detection cycles and
\* lighting samples complete in any order.
TimerFaces == {<<>>, <<FaceA>>, <<FaceC>>, <<FaceA, FaceD>>}

NextTimers ==
    \/ LoadModel
    \/ DetectStart
    \/ \E faces \in TimerFaces : DetectComplete(faces)
    \/ DetectError
    \/ \E light \in LightInputs : checkLightingConditions(light)

SpecTimers == Init /\ [][NextTimers]_vars

\* The account routes: registrations with every role in the body; the
\* administrator (1), a user (2) and the registered accounts, which are
\* guests until their role is changed, edit, suspend and delete accounts.
\* Edits and suspensions aim at the user or at a registered account,
\* deletions at the caller or at a registered account.
Registered == (Cardinality(UserIds) + 1)..(Cardinality(UserIds) + MaxAccounts)
AccountCallers == {1, 2} \cup Registered

NextAccounts ==
    \/ \E u \in AccountCallers : Login(u, TRUE)
    \/ Logout(2)
    \/ \E role \in {"", "guest", "user", "admin"},
          outcome \in {"ok", "insertFails", "loginFails"} :
          Register(MaxAccounts, TRUE, FALSE, role, outcome)
    \/ \E valid, existingUser \in BOOLEAN :
          Register(MaxAccounts, valid, existingUser, "admin", "ok")
    \/ \E c \in AccountCallers, id \in {2} \cup Registered,
          role \in {"", "user", "admin"}, f \in BOOLEAN :
          PatchUser(c, id, role, f, FALSE)
    \/ PatchUser(1, 2, "user", FALSE, TRUE)
    \/ \E c \in AccountCallers, id \in Registered : DeleteUser(c, id, FALSE)
    \/ \E c \in AccountCallers, d \in BOOLEAN : DeleteUser(c, c, d)
    \/ \E c \in AccountCallers, st \in {"active", "suspended", "bogus"} :
          PatchUserStatus(c, 2, st, FALSE)
    \/ \E id \in Registered, d \in BOOLEAN : PatchUserStatus(1, id, "pending", d)

SpecAccounts == Init /\ [][NextAccounts]_vars

\* The server process from its start: the connection attempts, the
\* registration of the routes and the listening server, which then
\* serves the logins, submissions and reads of a user.
NextStartup ==
    \/ connectWithRetry
    \/ ConnectSucceeds
    \/ \E err \in {"ECONNREFUSED", "ETIMEDOUT"} : ConnectFails(err)
    \/ StartupFails
    \/ RegisterRoutes
    \/ \E throws \in BOOLEAN : ServeClient(throws)
    \/ Listen
    \/ boot.listening /\ Login(2, TRUE)
    \/ boot.listening /\ Logout(2)
    \/ boot.listening /\ \E e \in ReviewExt :
          Submit(MaxSubmitRows, 2, ReviewPin, ReviewImage, e, "ok")
    \/ boot.listening /\ \E f \in BOOLEAN : GetUserVerifications(2, f)

SpecStartup == InitStartup /\ [][NextStartup]_vars

\* The scheduler runs the startup function to its end.
FairStartup == SpecStartup /\ WF_vars(NextStartup)

\* The administrator (1) sets the status of the account of user 2, who
\* logs in and out, submits verifications and reads them.
NextSuspend ==
    \/ \E u \in {1, 2}, ok \in BOOLEAN : Login(u, ok)
    \/ Logout(2)
    \/ \E st \in {"active", "suspended", "pending", "bogus"} :
          PatchUserStatus(1, 2, st, FALSE)
    \/ \E e \in ReviewExt :
          Submit(MaxSubmitRows, 2, ReviewPin, ReviewImage, e, "ok")
    \/ \E f \in BOOLEAN : GetUserVerifications(2, f)

SpecSuspend == Init /\ [][NextSuspend]_vars

\* The verification page of one user on a desktop: a capture session with
\* good light and a moving face, the form, and the submission handled by the server
\* up to the request to the collaborator, which fails.  Another client
\* of the API posts the same payloads raw.
PagePayloads == {"K", "L"}

NextPage ==
    \/ Login(2, TRUE)
    \/ LoadModel
    \/ DetectStart
    \/ \E faces \in {<<FaceA>>, <<FaceC>>} : DetectCycle(MaxPageSamples, faces)
    \/ checkLightingConditions(GoodLight)
    \/ \E p \in PagePayloads : capture(TRUE, GoodLight, FALSE, Frame(TRUE, TRUE, p))
    \/ confirmCapture
    \/ retake
    \/ \E val \in FormPins : typePin(val)
    \/ submitForm(MaxSubmitRows, 2)
    \/ \E p \in PagePayloads :
          VerifyReceive(MaxSubmitRows, 2, Str(CardText), Str(<<p>>))
    \/ VerifyFetchThrows

SpecPage == Init /\ [][NextPage]_vars

----------------------------------------------------------------------------
(* Claims *)

\* C1: a verification record whose status is approved or rejected never
\* has its status changed back to pending, by a submission or by an
\* administrator's override.
C1_NoReturnToPending ==
    [][\A i \in 1..Len(verifications) :
          verifications[i].status \in {"approved", "rejected"}
              => verifications'[i].status # "pending"]_vars

\* The external call of the finished request threw or answered, and the
\* database did not fail afterwards.
C2_DatabaseFailed == vreq.status # "none" /\ vreq.inserted = 0

\* C2: an authenticated submission that passed input validation has
\* persisted exactly one row when it is done, whatever the external call
\* did (2xx, non-2xx, a body that is not JSON, a network error).
C2_OneRowPerSubmission ==
    (vreq.pc = "done" /\ vreq.authed /\ vreq.extCalls = 1 /\ ~C2_DatabaseFailed)
        => vreq.inserted = 1

C3_PinMissingOrBlank ==
    \/ vreq.pinNumber.t = "undefined"
    \/ vreq.pinNumber.t = "string" /\ Trim(vreq.pinNumber.s) = <<>>

C3_ImageMissing ==
    \/ vreq.imageData.t = "undefined"
    \/ vreq.imageData = Str(<<>>)

C3_ImageTooShort ==
    /\ vreq.imageData.t = "string"
    /\ vreq.imageData.s # <<>>
    /\ StrLen(vreq.imageData.s) < 1000

\* C3: an authenticated submission whose pinNumber is missing or blank,
\* whose imageData is missing, or whose imageData is shorter than 1000
\* characters is answered with a 4xx status (400, 400, 422), without a
\* call to the collaborator and without a row.
C3_InvalidInputRejected ==
    (vreq.pc # "idle" /\ vreq.authed
        /\ (C3_PinMissingOrBlank \/ C3_ImageMissing \/ C3_ImageTooShort))
    => /\ vreq.pc = "done"
       /\ vreq.sent = 1
       /\ vreq.extCalls = 0
       /\ vreq.inserted = 0
       /\ vreq.resStatus =
             (IF C3_PinMissingOrBlank \/ C3_ImageMissing THEN 400 ELSE 422)

\* The status the claim assigns to a response body.
C4_Expected(b) ==
    LET verifiedPresent ==
            b.kind = "object" /\ b.data.t = "object" /\ b.data.verified # "absent"
        codePresent == b.kind = "object" /\ b.code # "absent"
    IN  CASE verifiedPresent /\ b.data.verified \in {"TRUE", "bool_true"} -> "approved"
          [] verifiedPresent /\ b.data.verified \notin {"TRUE", "bool_true"} -> "rejected"
          [] ~verifiedPresent /\ codePresent /\ b.code = "00" -> "approved"
          [] ~verifiedPresent /\ codePresent /\ b.code \in {"01", "02", "03", "04"} -> "rejected"
          [] OTHER -> "pending"

\* C4: the status persisted by a submission is a function of the
\* collaborator's response body only: data.verified first ("TRUE" or true
\* approves, any other value rejects), then responseCode ("00" approves,
\* "01".."04" reject), and pending for everything else.
C4_StatusFromBody ==
    \A i \in 1..Len(verifications) :
        /\ verifications[i].response.t = "json"
        /\ verifications[i].status = C4_Expected(verifications[i].response.body)

C4_Witness ==
    \E i \in 1..Len(verifications) :
        /\ verifications[i].response.body.data.verified = "TRUE"
        /\ verifications[i].response.body.code = "01"
        /\ verifications[i].status = "approved"

C6_AdminOps ==
    {"GET /api/verifications", "GET /api/verifications/:id",
     "PATCH /api/verifications/:id"}

\* C6: the administrator routes answer a caller who has no session or
\* whose role is not admin with 401 or 403, return no record data and
\* leave every verification record unchanged.
C6_AdminOnly ==
    [][(res'.op \in C6_AdminOps /\ res'.role # "admin")
          => /\ res'.code \in {401, 403}
             /\ res'.rows = <<>>
             /\ verifications' = verifications]_vars

C6_Witness ==
    /\ res.op = "PATCH /api/verifications/:id"
    /\ res.role = "user"
    /\ res.code = 401
    /\ Len(verifications) > 0

\* C7: GET /api/user/verifications returns exactly the rows whose userId
\* is the caller's id, whatever rows other users own.
C7_OwnRecordsOnly ==
    (res.op = "GET /api/user/verifications" /\ res.code = 200)
    => /\ \A j \in 1..Len(res.rows) :
             /\ res.rows[j].userId = res.caller
             /\ res.rows[j].id \in 1..Len(verifications)
             /\ res.rows[j] = verifications[res.rows[j].id]
       /\ \A j, k \in 1..Len(res.rows) : j < k => res.rows[j].id < res.rows[k].id
       /\ Len(res.rows) =
             Cardinality({i \in 1..Len(verifications) :
                             verifications[i].userId = res.caller})

C7_Witness ==
    /\ res.op = "GET /api/user/verifications"
    /\ res.code = 200
    /\ Len(res.rows) = 1
    /\ Len(verifications) = 2

\* C8: an authenticated submission sends at most one response, and
\* exactly one once its handler has run to the end; when the external
\* call throws, its body is not JSON, or the database fails, that
\* response is the 500 "Verification failed" of the route's catch.
C8_OneResponse ==
    /\ vreq.sent <= 1
    /\ vreq.pc \in {"idle", "fetching", "storing"} => vreq.sent = 0
    /\ vreq.pc = "done" => vreq.sent = 1
    /\ (vreq.pc = "done" /\ vreq.extCalls = 1
            /\ (vreq.apiStatus = 0 \/ vreq.status = "none" \/ vreq.inserted = 0
                \/ vreq.resError = "Verification failed"))
        => vreq.resStatus = 500 /\ vreq.resError = "Verification failed"

C8_Witness ==
    /\ vreq.pc = "done"
    /\ vreq.authed
    /\ vreq.extCalls = 1
    /\ vreq.apiStatus = 0
    /\ vreq.sent = 1
    /\ vreq.resStatus = 500

\* C9: once isLive is true it stays true under every later event of the
\* capture session.
C9_LivenessMonotonic == [][isLive => isLive']_vars

C9_Witness ==
    /\ isLive
    /\ pageImage # NoImage
    /\ webcamMounted
    /\ ~faceDetected

C10_Manhattan(a, b) ==
    (IF a.x > b.x THEN a.x - b.x ELSE b.x - a.x)
        + (IF a.y > b.y THEN a.y - b.y ELSE b.y - a.y)

\* C10: isLive turns true only in a detection cycle that appended a
\* primary-face sample more than MOVEMENT_THRESHOLD (20) away, in
\* |dx| + |dy|, from the sample retained before it; it is never true
\* while the history holds fewer than two samples, and a displacement of
\* exactly 20 does not set it.
C10_LiveOnlyAfterMovement ==
    [][/\ isLive' => Len(movementHistory') >= 2
       /\ (~isLive /\ isLive')
            => /\ movementHistory # <<>>
               /\ samples' = samples + 1
               /\ movementHistory'[Len(movementHistory')] = facePositions'[1]
               /\ movementHistory'[Len(movementHistory') - 1]
                      = movementHistory[Len(movementHistory)]
               /\ C10_Manhattan(movementHistory'[Len(movementHistory')],
                                movementHistory[Len(movementHistory)]) > 20]_vars

C10_Witness ==
    /\ isLive
    /\ Len(movementHistory) = 2
    /\ C10_Manhattan(movementHistory[1], movementHistory[2]) = 21

\* C11: the movement history holds at most MOVEMENT_HISTORY_LENGTH (10)
\* samples, as many as were appended up to that capacity; a cycle that
\* detects a face appends its primary face at the end and, when the
\* history was full, evicts the oldest sample, keeping the others in
\* arrival order; every other step leaves the history unchanged.
C11_HistoryIsFifoWindow ==
    /\ [](/\ Len(movementHistory) <= 10
          /\ Len(movementHistory) = (IF samples < 10 THEN samples ELSE 10))
    /\ [][IF samples' = samples + 1
          THEN LET all == movementHistory \o <<facePositions'[1]>>
                   k == IF Len(all) < 10 THEN Len(all) ELSE 10
               IN  /\ Len(movementHistory') = k
                   /\ \A i \in 1..k :
                         movementHistory'[i] = all[Len(all) - k + i]
          ELSE movementHistory' = movementHistory]_vars

C11_Witness ==
    /\ samples = 11
    /\ Len(movementHistory) = 10
    /\ movementHistory[1].y = 91
    /\ movementHistory[10].y = 80
    /\ ~faceDetected

C12_Gate ==
    /\ lightingStatus.isGood
    /\ faceDetected
    /\ isLive
    /\ imageQuality.score >= 75
    /\ Len(facePositions) <= 4
    /\ \A i \in 1..Len(facePositions) : ~facePositions[i].hasGlasses

\* C12: the capture handler acts (stores an image or shows a message in
\* place of one) only in a state where the six gate conditions hold:
\* lighting good, a face detected, isLive, quality score at least 75, at
\* most MAX_FACES_ALLOWED (4) faces and no eyewear on any face.  In every
\* other state no image is stored.
C12_CaptureOnlyWhenGated ==
    [][(capturedImage = NoImage /\ (capturedImage' # NoImage \/ error' # error))
          => C12_Gate]_vars

C12_Witness ==
    /\ capturedImage = <<"L">>
    /\ error = "null"
    /\ C12_Gate
    /\ multipleFaces = FALSE

\* C13: the image compressImage resolves with, stored by capture, never
\* exceeds MAX_FILE_SIZE (1 MB) once decoded, on mobile and on desktop.
C13_WithinCeiling ==
    capturedImage # NoImage => 3 * StrLen(capturedImage) <= 4 * 1048576

C14_RejectMessages ==
    {"Failed to load image. Please try again with better lighting.",
     "Failed to get canvas context",
     "Image size exceeds limit. Try moving closer to the camera or ensuring better lighting."}

\* C14: when compressImage rejects during capture its message is shown,
\* capturedImage stays null, the page is handed nothing, and isLive and
\* the movement history are left as they were.
C14_RejectDiscardsCapture ==
    [][(error' \in C14_RejectMessages /\ error' # error)
          => /\ capturedImage = NoImage
             /\ capturedImage' = NoImage
             /\ pageImage' = pageImage
             /\ isLive' = isLive
             /\ movementHistory' = movementHistory]_vars

C14_Witness ==
    /\ error = "Image size exceeds limit. Try moving closer to the camera or ensuring better lighting."
    /\ capturedImage = NoImage
    /\ isLive
    /\ Len(movementHistory) >= 2

\* C17: a polling cycle in which detection throws ends like a cycle that
\* found no face: after it the face-detected flag is false and the
\* capture button is disabled.
C17_ErrorMeansNoFace ==
    [][(detecting' < detecting /\ samples' = samples)
          => (~faceDetected' /\ captureDisabled')]_vars

C15_IsGhanaCard(val) ==
    /\ Len(val) = 14
    /\ <<val[1], val[2], val[3], val[4]>> = <<"G", "H", "A", "-">>
    /\ \A i \in {5, 6, 7, 8, 9, 10, 11, 12, 14} :
          val[i] \in {"0", "1", "2", "3", "4", "5", "6", "7", "8", "9"}
    /\ val[13] = "-"

\* C15: the form accepts the text of its field if and only if it is
\* "GHA-", 8 digits, "-", 1 digit: once submitted, the field shows no
\* message exactly when its text has that shape, and every card number
\* posted to the server has it.
C15_OnlyGhanaCardsAccepted ==
    /\ form.isSubmitted => (form.error = "" <=> C15_IsGhanaCard(form.pinNumber))
    /\ vreq.pinNumber.t = "string" => C15_IsGhanaCard(vreq.pinNumber.s)

\* C16: the eyewear score detectGlasses computes for a face (the value it
\* logs) lies in 0..4, one point at most for each of the four signals,
\* and the face is reported as wearing glasses exactly when the score is
\* at least 2.
C16_ScoreInRange ==
    /\ \A i \in 1..Len(glassesLog) : glassesLog[i] \in 0..4
    /\ Len(glassesLog) = Len(facePositions)
          => \A i \in 1..Len(glassesLog) :
                facePositions[i].hasGlasses <=> glassesLog[i] >= 2

C20_Centred(face) ==
    /\ 2 * face.x + face.width >= 2 * (320 - 64)
    /\ 2 * face.x + face.width <= 2 * (320 + 64)
    /\ 2 * face.y + face.height >= 2 * (240 - 48)
    /\ 2 * face.y + face.height <= 2 * (240 + 48)

C20_RightSize(face) == 10 * face.width >= 3 * 640 /\ 10 * face.width <= 7 * 640

\* C18: a submission of the page carries the image the capture component
\* holds, as confirmed: after a retake nothing is submitted until an
\* image has been captured and confirmed again, and the image discarded
\* by the retake is never sent.
C18_NoDiscardedImageSubmitted ==
    [][(/\ vreq.pc \in {"idle", "done"}
        /\ vreq' # vreq
        /\ vreq'.imageData.t = "string"
        /\ Includes(vreq'.imageData.s, "data:image/jpeg;"))
          => /\ capturedImage # NoImage
             /\ vreq'.imageData.s = <<"data:image/jpeg;", "base64,">> \o capturedImage]_vars

C19_DataUri(b) == <<"data:image/jpeg;", "base64,", b>>

\* C19: confirmCapture hands the page the data-URI of the payload the
\* normaliser produced, and for every payload b the image forwarded to
\* the collaborator is exactly b, whether the request carried b raw or
\* as "data:image/jpeg;base64," + b.
C19_PrefixRoundTrip ==
    /\ pageImage # NoImage => \E b \in {"K", "L"} : pageImage = C19_DataUri(b)
    /\ \A b \in {"K", "L"} :
          (/\ vreq.extCalls > 0
           /\ vreq.imageData.t = "string"
           /\ vreq.imageData.s \in {<<b>>, C19_DataUri(b)})
             => vreq.requestBody.image = <<b>>

C19_Witness ==
    /\ vreq.extCalls = 1
    /\ capturedImage = <<"L">>
    /\ pageImage = C19_DataUri("L")
    /\ vreq.imageData.s = pageImage
    /\ vreq.requestBody.image = <<"L">>

\* C20: the stored quality is the reference applied to the primary face:
\* isCentered iff the box centre is within 64 px of x = 320 and within
\* 48 px of y = 240, an offset of exactly 64 or 48 counting as within;
\* isRightSize iff 0.3 <= width / 640 <= 0.7; score = 25 x the number of
\* true sub-checks, always one of 0, 25, 50, 75, 100.
C20_QualityMatchesReference ==
    /\ imageQuality.score \in {0, 25, 50, 75, 100}
    /\ imageQuality.score =
          25 * Cardinality({c \in {"isCentered", "isRightSize", "isStraight", "isSharp"} :
                              imageQuality[c]})
    /\ faceDetected
          => /\ imageQuality.isCentered <=> C20_Centred(facePositions[1])
             /\ imageQuality.isRightSize <=> C20_RightSize(facePositions[1])

\* The six reasons for denying a capture, in the order of precedence.
C21_Order ==
    << [fails |-> ~faceDetected, reason |-> "No Face Detected"],
       [fails |-> ~isLive, reason |-> "Confirm Liveness"],
       [fails |-> ~lightingStatus.isGood, reason |-> "Adjust Lighting"],
       [fails |-> imageQuality.score < 75, reason |-> "Follow Guidelines"],
       [fails |-> Len(facePositions) > 4, reason |-> "Too Many Faces"],
       [fails |-> glassesDetected, reason |-> "Remove Glasses"] >>

C21_Failing == {i \in 1..Len(C21_Order) : C21_Order[i].fails}

\* C21: whenever the capture button is disabled its label is the reason
\* of the first failing condition in the order no face, liveness,
\* lighting, quality, too many faces, glasses; and the label is "Capture
\* Photo" exactly when the button is enabled.
C21_LabelIsFirstReason ==
    /\ captureDisabled =>
          /\ C21_Failing # {}
          /\ \E i \in C21_Failing :
                /\ \A j \in C21_Failing : i <= j
                /\ captureLabel = C21_Order[i].reason
    /\ (captureLabel = "Capture Photo") <=> ~captureDisabled

\* Liveness and lighting both fail for a detected face: the label names
\* the liveness.
C21_Witness ==
    /\ faceDetected
    /\ ~isLive
    /\ ~lightingStatus.isGood
    /\ lightingStatus.brightness = 50
    /\ captureDisabled
    /\ captureLabel = "Confirm Liveness"

\* The state a face-detection cycle writes.
C22_DetectionState ==
    <<facePositions, faceDetected, multipleFaces, glassesDetected,
      imageQuality, isLive, movementHistory>>

\* The values a detection cycle that is handed faces leaves in
\* C22_DetectionState, computed in the current state.
C22_Detected(faces) ==
    LET d == [i \in 1..Len(faces) |-> Detected(faces[i])]
    IN  IF Len(d) > 0
        THEN <<d, TRUE, Len(d) > 1, \E i \in 1..Len(d) : d[i].hasGlasses,
               analyzeImageQuality(d[1]),
               isLiveAfter(isLive, newHistory(movementHistory, d[1])),
               newHistory(movementHistory, d[1])>>
        ELSE <<d, FALSE, FALSE, FALSE, imageQuality, isLive, movementHistory>>

C22_LightingStep == lightingStatus' # lightingStatus

C22_DetectionStep == detecting' < detecting

\* C22: a lighting sample and a face-detection cycle commute.  A lighting
\* sample writes the lighting status only and changes neither what a
\* detection cycle would write for any faces nor whether it can run; a
\* detection cycle writes face positions, quality, eyewear, liveness and
\* movement history from its faces and its own previous state, and leaves
\* the lighting status alone; so both completion orders end in the same
\* state.  The movement history changes in detection cycles only.
C22_LightingAndDetectionCommute ==
    [][/\ C22_LightingStep =>
             /\ UNCHANGED <<C22_DetectionState, detecting, samples, capturedImage>>
             /\ \A faces \in TimerFaces : C22_Detected(faces)' = C22_Detected(faces)
       /\ C22_DetectionStep =>
             /\ UNCHANGED <<lightingStatus, capturedImage>>
             /\ \/ UNCHANGED C22_DetectionState
                \/ \E faces \in TimerFaces : C22_DetectionState' = C22_Detected(faces)
       /\ movementHistory' # movementHistory => C22_DetectionStep]_vars

\* Lighting samples and detection cycles have both completed.
C22_Witness ==
    /\ lightingStatus.brightness = 150
    /\ lightingStatus.isGood
    /\ Len(movementHistory) = 2
    /\ isLive
    /\ imageQuality.score = 100

\* C23: every account created through POST /api/register has role guest,
\* whatever role the request body supplies; registration never creates a
\* user or an admin account.
C23_RegisteredAsGuest ==
    [][\A u \in DOMAIN users' \ DOMAIN users :
          /\ res'.op = "POST /api/register"
          /\ users'[u].role = "guest"]_vars

\* A registration has created account 4 and logged it in.
C23_Witness ==
    /\ res.op = "POST /api/register"
    /\ res.code = 201
    /\ 4 \in DOMAIN users
    /\ users[4].role = "guest"
    /\ 4 \in sessions

\* C24: when the call to the external verification API fails, the server
\* retries it and makes up to 3 attempts in total before it reports the
\* failure: a request whose call threw is answered only once the third
\* attempt has been made.
C24_FailureAfterThreeAttempts ==
    (vreq.pc = "done" /\ vreq.extCalls > 0 /\ vreq.apiStatus = 0)
        => vreq.extCalls = 3

\* C25: connectWithRetry makes at most MAX_RETRIES database connection
\* attempts: the k of the 'attempt k/MAX_RETRIES' line it logs never
\* exceeds MAX_RETRIES, and no more than MAX_RETRIES test queries are sent.
C25_AtMostMaxRetriesAttempts ==
    /\ boot.logged <= MAX_RETRIES
    /\ boot.attempts <= MAX_RETRIES

C26_Order ==
    /\ (boot.routes \/ boot.listening) => boot.connected
    /\ boot.thrown # "none" => (~boot.routes /\ ~boot.listening)
    /\ boot.pc = "exited" => (boot.exitCode = 1 /\ ~boot.listening)

\* C26: at startup the routes are registered and the server listens only
\* after a database connection attempt has succeeded; once every attempt
\* has failed the process exits with code 1 and never listens.
C26_ListenOnlyAfterConnect ==
    /\ []C26_Order
    /\ (boot.thrown # "none") ~> (boot.pc = "exited" /\ boot.exitCode = 1)

\* The server listens and serves a request after two failed connection
\* attempts and a successful third.
C26_Witness ==
    /\ boot.listening
    /\ boot.connected
    /\ boot.attempts = 3
    /\ boot.lastError = "ETIMEDOUT"
    /\ res.op = "GET /api/user/verifications"
    /\ res.code = 200

\* A step in which an override of a record has succeeded.
C27_OverrideStep ==
    /\ res'.op = "PATCH /api/verifications/:id"
    /\ res'.code = 200
    /\ (res' # res \/ verifications' # verifications)

\* C27: an administrator's override that carries no response note changes
\* only the status of the record: the stored collaborator response, the
\* image, the ID number and the owner are what they were.
C27_OverrideWithoutNoteKeepsRecord ==
    [][C27_OverrideStep =>
          LET id == res'.rows[1].id
          IN  verifications'[id].response.t # "note" =>
                 verifications'[id] =
                    [verifications[id] EXCEPT !.status = verifications'[id].status]]_vars

\* C28: a record with status approved is persisted only when the
\* collaborator's HTTP response was successful: whenever a submission is
\* answered with the error "External verification failed", the record
\* it has persisted is not approved.
C28_ApprovedOnlyWhenSuccessful ==
    [][(/\ Len(verifications') = Len(verifications) + 1
        /\ res'.op = "POST /api/verify"
        /\ res'.err = "External verification failed")
          => verifications'[Len(verifications')].status # "approved"]_vars

\* A step changes or removes an existing account.
C29_AccountChanged ==
    \E u \in DOMAIN users : u \notin DOMAIN users' \/ users'[u] # users[u]

\* A step answers a request of a caller who is no administrator.
C29_NonAdminRequest(op) ==
    /\ res' # res
    /\ res'.op = op
    /\ RoleOf(res'.caller) # "admin"

\* C29: no request made by a session whose role is user or guest changes
\* the role or the status of any account.  Every step that changes or
\* removes an account answers the request of an administrator's session;
\* PATCH /api/users/:id/status and DELETE /api/users/:id from anyone else
\* are refused with 401, and PATCH /api/users/:id from anyone else is
\* refused or leaves every role and status as it was.
C29_NonAdminChangesNoAccount ==
    [][/\ C29_AccountChanged => RoleOf(res'.caller) = "admin"
       /\ C29_NonAdminRequest("PATCH /api/users/:id/status") => res'.code = 401
       /\ C29_NonAdminRequest("DELETE /api/users/:id") => res'.code = 401
       /\ C29_NonAdminRequest("PATCH /api/users/:id") =>
             (res'.code \in {401, 403, 500} \/ users' = users)]_vars

\* A user's edit of the own account has been accepted.
C29_Witness ==
    /\ res.op = "PATCH /api/users/:id"
    /\ res.code = 200
    /\ res.caller = 2
    /\ res.role = "user"
    /\ users[2] = [role |-> "user", status |-> "active"]

\* A step in which account u logs in.
C30_LogsIn(u) == u \notin sessions /\ u \in sessions'

\* A step in which a submission of account u is let past the
\* authentication check.
C30_Submits(u) ==
    /\ (res' # res \/ verifications' # verifications)
    /\ res'.op = "POST /api/verify"
    /\ res'.caller = u
    /\ res'.code # 401

\* C30: while the status of an account is suspended the account neither
\* logs in nor submits a verification.
C30_SuspendedLockedOut ==
    [][\A u \in DOMAIN users :
          users[u].status = "suspended" => (~C30_LogsIn(u) /\ ~C30_Submits(u))]_vars

====
